---- MODULE Spec2Model ----
(***************************************************************************)
(* Model of Files/update_git.py: update_with_token and its helpers         *)
(* _remove_stale_index_lock and _ensure_identity.                          *)
(*                                                                         *)
(* Each invocation of update_with_token is a run r \in Runs, a separate    *)
(* process with its own environment.  A run advances one external call at  *)
(* a time (file-lock poll, filesystem call, git command), so the calls of  *)
(* concurrent runs interleave freely.  The repository (index.lock marker,  *)
(* config, remote, work tree, history) and .git/push.lock are shared.      *)
(*                                                                         *)
(* Strings the code takes apart (remote URLs, git's stderr) are sequences  *)
(* or sets of fragments, and the code's string operations are computed on  *)
(* them.  The release of the file lock is taken to succeed; every other    *)
(* external call may fail.                                                 *)
(***************************************************************************)
EXTENDS Integers, Sequences, FiniteSets, TLC

\* ------------------------------------------------------------------ bounds
NumRuns == 2            \* concurrent invocations of update_with_token
PollStep == 11           \* seconds a run has waited more after each failed poll

Runs == 1..NumRuns

\* ------------------------------------------------------- program constants
THREAD_ERR == "getaddrinfo() thread failed to start"
max_age_sec == 30 * 60
AcquireTimeout == 10
None == "None"          \* Python's None / an unset environment variable
NoOwner == 0            \* push.lock is not held

\* -------------------------------------------------------------- input sets
\* Clock readings (seconds) and modification times of a pre-existing
\* index.lock: ages 0, 1, 2 at the first reading and 1799, 1800, 1801 at the
\* second, i.e. just below, exactly at and just above max_age_sec.
Times == {2, max_age_sec + 1}
Mtimes == {0, 1, 2}

\* Remote URLs as sequences of lexical fragments.
HttpsUrl == <<"https", ":", "//", "github.com", "/", "o/r.git">>
ScpUrl == <<"git@github.com", ":", "o/r.git">>
PathUrl == <<"/srv/git/r.git">>
MirrorUrl == <<"https", ":", "//", "mirror.example", "/", "o/r.git">>
Unset == <<>>           \* remote.<name>.pushurl has no entry

\* stderr of a failed fetch / pull: the set of fragments it contains.
Stderrs ==
    { {THREAD_ERR},
      {"index.lock", "File exists"},
      {"CONFLICT", "Merge conflict in"},
      {"refusing to merge unrelated histories"},
      {"Could not resolve host"},
      {"could not apply: fix index.lock handling", "Resolve all conflicts manually"} }

\* ---------------------------------------------------------------- variables
VARIABLES
    pc,          \* pc[r]: the call run r makes next
    environ,     \* environ[r]: os.environ of run r's process
    branch,      \* branch[r]: the branch argument
    local,       \* local[r]: the run's local variables, and what it saw and did
    outcome,     \* outcome[r]: how the call returned or what it raised
    ops,         \* ops[r]: the external operations run r has performed
    pre,         \* pre[r]: remote configuration when r took the lock
    proc_lock,   \* owner of .git/push.lock, or NoOwner
    index_lock,  \* .git/index.lock: [exists, mtime]
    now,         \* time.time()
    config,      \* repository config: user.name, user.email
    remote,      \* remote.<name>.url and remote.<name>.pushurl
    remote0,     \* the remote configuration before any run
    tree,        \* work tree and index: [dirty, staged, head]
    history      \* [commits, pushed]: local commits, and how many the remote has

vars == <<pc, environ, branch, local, outcome, ops, pre, proc_lock, index_lock,
          now, config, remote, remote0, tree, history>>

repo == <<index_lock, config, remote, tree, history>>

\* ------------------------------------------------------ string operations
\* First position of fragment x in sequence s, 0 when s does not contain it.
Find(s, x) ==
    IF \E i \in 1..Len(s) : s[i] = x
    THEN CHOOSE i \in 1..Len(s) : s[i] = x /\ \A j \in 1..(i - 1) : s[j] # x
    ELSE 0

Tail_(s, i) == SubSeq(s, i, Len(s))

\* original.startswith("http")
StartsWithHttp(u) == Len(u) > 0 /\ u[1] \in {"http", "https"}

\* original.split(':', 1) has a second element
HasColon(u) == Find(u, ":") # 0

\* original if original.startswith("http")
\*          else f"https://github.com/{original.split(':',1)[1]}"
ToHttps(u) ==
    IF StartsWithHttp(u) THEN u
    ELSE <<"https", ":", "//", "github.com", "/">> \o Tail_(u, Find(u, ":") + 1)

\* urlparse(https).netloc: what follows "//" up to the next "/"
NetlocFirst(u) == Find(u, "//") + 1
NetlocLast(u) ==
    LET rest == Tail_(u, NetlocFirst(u))
    IN  IF Find(rest, "/") = 0 THEN Len(u) ELSE NetlocFirst(u) + Find(rest, "/") - 2
Netloc(u) == SubSeq(u, NetlocFirst(u), NetlocLast(u))

\* u._replace(netloc=n).geturl()
ReplaceNetloc(u, n) ==
    SubSeq(u, 1, NetlocFirst(u) - 1) \o n \o Tail_(u, NetlocLast(u) + 1)

\* the credentialed push URL built from remote.url and the token
PushUrl(original, token) ==
    LET u == ToHttps(original)
    IN  ReplaceNetloc(u, <<"x-access-token", ":", token, "@">> \o Netloc(u))

\* the URL carries an access token
Credentialed(u) == \E i \in 1..Len(u) : u[i] = "x-access-token"

\* msg.lower(), fragment by fragment
Lower(f) ==
    CASE f = "CONFLICT" -> "conflict"
      [] f = "Merge conflict in" -> "merge conflict in"
      [] f = "File exists" -> "file exists"
      [] f = "Could not resolve host" -> "could not resolve host"
      [] f = "Resolve all conflicts manually" -> "resolve all conflicts manually"
      [] OTHER -> f

\* the substrings each fragment contains that the code looks for
Contains(f, sub) ==
    \/ f = sub
    \/ f = "merge conflict in" /\ sub \in {"merge", "conflict"}
    \/ f = "Merge conflict in" /\ sub = "conflict"
    \/ f = "refusing to merge unrelated histories" /\ sub = "merge"
    \/ f = "could not apply: fix index.lock handling" /\ sub = "index.lock"
    \/ f = "Resolve all conflicts manually" /\ sub = "conflict"
    \/ f = "resolve all conflicts manually" /\ sub = "conflict"

\* sub in msg
In(sub, msg) == \E f \in msg : Contains(f, sub)
\* sub in msg.lower()
InLower(sub, msg) == \E f \in msg : Contains(Lower(f), sub)

ClassifyNoIndexLockTest(msg) ==
    IF In(THREAD_ERR, msg) THEN "skipped: low resources"
    ELSE IF InLower("conflict", msg) \/ InLower("merge", msg) THEN "RebaseConflict"
    ELSE "swallowed"
\* How the except clause of the fetch / pull step ends for stderr msg:
\* a return, a re-raise, or falling out of the clause ("swallowed").
Classify(msg) ==
    IF In(THREAD_ERR, msg) THEN "skipped: low resources"
    ELSE IF In("index.lock", msg) THEN "skipped: index.lock during pull"
    ELSE IF InLower("conflict", msg) \/ InLower("merge", msg) THEN "RebaseConflict"
    ELSE "swallowed"

\* --------------------------------------------------------------- predicates
SkipPushNever(e) == FALSE
\* os.getenv("SKIP_PUSH") == "1"
SkipPushSet(e) == e["SKIP_PUSH"] = "1"

TokenIsNone(t) == t = None
\* not token
TokenMissing(t) == t = None \/ t = ""

CanAcquireAlways(l) == TRUE
\* FileLock._acquire succeeds: nobody holds .git/push.lock
CanAcquire(l) == l = NoOwner

TimedOutNever(w) == FALSE
\* the poll loop of acquire(timeout=10) gives up
TimedOut(w) == w > AcquireTimeout

IsStaleAlways(age) == TRUE
IsStaleStrict(age) == age > max_age_sec
\* age >= max_age_sec
IsStale(age) == age >= max_age_sec

ReleasedNot(l, r) == l
\* proc_lock.release()
Released(l, r) == IF l = r THEN NoOwner ELSE l

\* remote.set_url(original, push=True) in the finally clause
Restored(original, current) == original

EnsuredClobber(current, override, default) ==
    IF override # None THEN override ELSE default
\* os.getenv(key, default), set only when the config key is missing
Ensured(current, override, default) ==
    IF current # None THEN current
    ELSE IF override # None THEN override ELSE default

SetDefaultOverwrite(current, default) == default
\* os.environ.setdefault(key, default): the value the variable holds afterwards
SetDefault(current, default) == IF current = None THEN default ELSE current

Detached == "(detached HEAD)"

DefaultBranchNoFallback(b, head) ==
    IF b # None THEN b
    ELSE IF head # Detached THEN head ELSE "main"
\* branch or (repo.active_branch.name if not repo.head.is_detached else "main")
DefaultBranch(b, head) ==
    IF b # None /\ b # "" THEN b
    ELSE IF head # Detached THEN head ELSE "main"

IsDirtyAlways(t) == TRUE
\* repo.is_dirty(untracked_files=True)
IsDirty(t) == t.staged \/ t.dirty

\* remote_name="origin"
remote_name == "origin"

\* One git network command of a run: its name, its arguments, how it ended.
GitCall(cmd, args, ok) == [cmd |-> cmd, args |-> args, ok |-> ok]
\* repo.git.fetch(remote_name)
FetchArgs == <<remote_name>>
\* repo.git.pull("--rebase", remote_name, default_branch)
PullArgs(b) == <<"--rebase", remote_name, b>>
\* repo.git.push(remote_name, default_branch)
PushArgs(b) == <<remote_name, b>>
\* repo.git.push(remote_name, f"HEAD:refs/heads/{default_branch}", "-u")
RetryArgs(b) == <<remote_name, "HEAD:refs/heads/", b, "-u">>

\* What the remote has after `git push <remote> b` succeeded, HEAD being on
\* head: the push sends the local branch named b, which holds the commits of
\* the run only when it is the branch HEAD is on.
Pushed(h, b, head) == IF b = head THEN h.commits ELSE h.pushed

\* What the remote can have after `git push <remote> HEAD:refs/heads/b`
\* succeeded: the commits on HEAD, which are all local commits while HEAD is
\* on the branch and may be fewer once a rebase has left HEAD detached.
HeadPushed(h, head) ==
    IF head = Detached THEN h.pushed .. h.commits ELSE {h.commits}

\* try: push ... except git.GitCommandError: the retry; else the finally clause
AfterPush(ok) == IF ok THEN "restore" ELSE "push_retry"
\* the retry is the last statement of the except clause: the finally clause
AfterRetry(ok) == "restore"

\* ------------------------------------------------------------------ inputs
NoEnv == [SKIP_PUSH |-> None, github_token |-> None, GIT_USER_NAME |-> None,
          GIT_USER_EMAIL |-> None, GIT_TERMINAL_PROMPT |-> None]

\* The inputs of a run.  A variable of os.environ is drawn when the run first
\* reads it, and the branch argument when the run first uses it.  SKIP_PUSH
\* unset or "1" occurs with every github_token, and "true" without a token;
\* of the later inputs (identity overrides, branch argument, prompt toggle)
\* one at a time departs from unset.  Among the runs at most one, run 1, has a
\* process environment that is not the plain one (only github_token set) or
\* is called with a branch argument; the others are calls of Update().
SkipValues == {None, "1", "true"}
TokenValues(s) == IF s = "true" THEN {None} ELSE {None, "", "ghp_tok"}
\* c is the repository config the identity step finds: an override is drawn
\* where it can matter most, with one key set and the other unset.
NameValues(c) ==
    IF (c.name = None) # (c.email = None) THEN {None, "ci"} ELSE {None}
EmailValues(c, n) ==
    IF n = None /\ (c.name = None) # (c.email = None)
    THEN {None, "ci@example.org"} ELSE {None}
PromptValues(e, b) ==
    IF e.GIT_USER_NAME = None /\ e.GIT_USER_EMAIL = None /\ b = None
    THEN {None, "1"} ELSE {None}
BranchValues(e) ==
    IF e.GIT_USER_NAME = None /\ e.GIT_USER_EMAIL = None
    THEN {None, "", "dev"} ELSE {None}

NoLocal == [waited |-> 0, age |-> 0, original |-> Unset, push_url |-> Unset,
            default_branch |-> None, stderr |-> {}, removed |-> {},
            config0 |-> [name |-> None, email |-> None], prompt0 |-> None,
            pending |-> FALSE, committed |-> 0, calls |-> <<>>, head |-> None]

NoRemote == [url |-> Unset, pushurl |-> Unset]
NoIndexLock == [exists |-> FALSE, mtime |-> 0]

\* The repository before any run.  One aspect at a time departs from the
\* base repository: no index.lock, no identity configured, an https remote
\* without a push URL, a dirty work tree on branch "work".
IndexLocks == {NoIndexLock} \cup {[exists |-> TRUE, mtime |-> m] : m \in Mtimes}
Configs == {[name |-> None, email |-> None],
            [name |-> "alice", email |-> None],
            [name |-> None, email |-> "alice@example.org"]}
Remotes ==
    {[url |-> HttpsUrl, pushurl |-> p] : p \in {Unset, MirrorUrl}}
        \cup {[url |-> ScpUrl, pushurl |-> Unset], [url |-> PathUrl, pushurl |-> Unset]}
BaseConfig == [name |-> None, email |-> None]
BaseRemote == [url |-> HttpsUrl, pushurl |-> Unset]
BaseTree == [dirty |-> TRUE, staged |-> FALSE, head |-> "work"]
Trees == {BaseTree, [BaseTree EXCEPT !.dirty = FALSE], [BaseTree EXCEPT !.head = Detached]}

Repos ==
    { x \in [index_lock : IndexLocks, config : Configs, remote : Remotes, tree : Trees] :
        Cardinality({k \in {"index_lock", "config", "remote", "tree"} :
            x[k] # [index_lock |-> NoIndexLock, config |-> BaseConfig,
                    remote |-> BaseRemote, tree |-> BaseTree][k]}) <= 1 }

Init ==
    /\ pc = [r \in Runs |-> "idle"]
    /\ environ = [r \in Runs |-> NoEnv]
    /\ branch = [r \in Runs |-> None]
    /\ local = [r \in Runs |-> NoLocal]
    /\ outcome = [r \in Runs |-> "running"]
    /\ ops = [r \in Runs |-> {}]
    /\ pre = [r \in Runs |-> NoRemote]
    /\ proc_lock = NoOwner
    /\ now = 2
    /\ \E x \in Repos :
        /\ index_lock = x.index_lock
        /\ config = x.config
        /\ remote = x.remote
        /\ tree = x.tree
    /\ remote0 = remote
    /\ history = [commits |-> 0, pushed |-> 0]

\* ------------------------------------------------------------------ actions
Goto(r, label) == pc' = [pc EXCEPT ![r] = label]
Did(r, op) == ops' = [ops EXCEPT ![r] = @ \cup {op}]
Ends(r, how) == outcome' = [outcome EXCEPT ![r] = how]

\* The environment of a process that sets github_token and nothing else the
\* run reads (GIT_TERMINAL_PROMPT unset, or "0" once the run has set it).
Plain(e) ==
    /\ e.SKIP_PUSH = None
    /\ e.github_token = "ghp_tok"
    /\ e.GIT_USER_NAME = None
    /\ e.GIT_USER_EMAIL = None
    /\ e.GIT_TERMINAL_PROMPT # "1"
\* The run whose environment may be other than plain and that may be given
\* a branch argument.  At most one run is such, and the runs are
\* interchangeable: it is run 1.
Varied(r) == r = 1

\* update_with_token is called: the SKIP_PUSH and github_token checks.
Start(r) ==
    /\ pc[r] = "idle"
    /\ \E s \in SkipValues : \E t \in TokenValues(s) :
        LET e == [NoEnv EXCEPT !.SKIP_PUSH = s, !.github_token = t]
        IN  /\ Plain(e) \/ Varied(r)
            /\ environ' = [environ EXCEPT ![r] = e]
            /\ IF SkipPushSet(e)
               THEN Goto(r, "done") /\ Ends(r, "skipped: SKIP_PUSH=1")
               ELSE IF TokenMissing(e.github_token)
               THEN Goto(r, "done") /\ Ends(r, "MissingCredential")
               ELSE Goto(r, "acquire") /\ UNCHANGED outcome
    /\ UNCHANGED <<branch, local, ops, pre, proc_lock, now, remote0, repo>>

\* proc_lock.acquire(timeout=10): one poll that takes the lock.
Acquire(r) ==
    /\ pc[r] = "acquire"
    /\ CanAcquire(proc_lock)
    /\ proc_lock' = r
    /\ local' = [local EXCEPT ![r].config0 = config]
    /\ pre' = [pre EXCEPT ![r] = remote]
    /\ Goto(r, "index_exists")
    /\ UNCHANGED <<environ, branch, outcome, ops, now, remote0, repo>>

\* One poll that finds the lock held, and sleeps.
AcquireWait(r) ==
    /\ pc[r] = "acquire"
    /\ ~CanAcquire(proc_lock)
    /\ ~TimedOut(local[r].waited)
    /\ local' = [local EXCEPT ![r].waited = @ + PollStep]
    /\ UNCHANGED <<pc, environ, branch, outcome, ops, pre, proc_lock, now, remote0, repo>>

\* One poll that finds the lock held after the timeout: except Timeout: return.
AcquireGiveUp(r) ==
    /\ pc[r] = "acquire"
    /\ ~CanAcquire(proc_lock)
    /\ TimedOut(local[r].waited)
    /\ Goto(r, "done")
    /\ Ends(r, "skipped: push.lock busy")
    /\ UNCHANGED <<environ, branch, local, ops, pre, proc_lock, now, remote0, repo>>

\* A raise or return inside the outer try: the finally clause is next.
Leave(r, how) == Goto(r, "release") /\ Ends(r, how)

\* _remove_stale_index_lock: os.path.exists(lock_path)
IndexExists(r) ==
    /\ pc[r] = "index_exists"
    /\ Did(r, "index_exists")
    /\ Goto(r, IF index_lock.exists THEN "index_mtime" ELSE "identity")
    /\ UNCHANGED <<environ, branch, local, outcome, pre, proc_lock, now, remote0, repo>>

\* age = time.time() - os.path.getmtime(lock_path), max_age_sec + 1 on OSError;
\* then the age test, which raises when the marker is recent.
IndexMtime(r) ==
    /\ pc[r] = "index_mtime"
    /\ LET age == IF index_lock.exists THEN now - index_lock.mtime
                   ELSE max_age_sec + 1
       IN  /\ local' = [local EXCEPT ![r].age = age]
           /\ IF IsStale(age)
              THEN Goto(r, "index_remove") /\ UNCHANGED outcome
              ELSE Leave(r, "ConcurrentOperation")
    /\ Did(r, "index_mtime")
    /\ UNCHANGED <<environ, branch, pre, proc_lock, now, remote0, repo>>

\* os.remove(lock_path)
IndexRemove(r) ==
    /\ pc[r] = "index_remove"
    /\ IF index_lock.exists
       THEN /\ index_lock' = NoIndexLock
            /\ local' = [local EXCEPT ![r].removed = {now - index_lock.mtime}]
            /\ Did(r, "index_remove")
            /\ Goto(r, "identity")
            /\ UNCHANGED outcome
       ELSE /\ Leave(r, "FileNotFoundError")
            /\ UNCHANGED <<index_lock, local, ops>>
    /\ UNCHANGED <<environ, branch, pre, proc_lock, now, remote0,
                   config, remote, tree, history>>

\* repo = git.Repo(repo_dir); _ensure_identity(repo).  repo.config_writer()
\* takes .git/config.lock and raises IOError when another process holds it,
\* before any key is read or written.
EnsureIdentity(r) ==
    /\ pc[r] = "identity"
    /\ \/ /\ \E n \in NameValues(config) : \E e \in EmailValues(config, n) :
                /\ (n = None /\ e = None) \/ Varied(r)
                /\ environ' = [environ EXCEPT ![r].GIT_USER_NAME = n,
                                              ![r].GIT_USER_EMAIL = e]
                /\ config' = [name |-> Ensured(config.name, n, "automation"),
                              email |-> Ensured(config.email, e, "automation@example.com")]
          /\ Did(r, "identity")
          /\ Goto(r, "add")
          /\ UNCHANGED outcome
       \/ /\ Leave(r, "IOError")
          /\ UNCHANGED <<environ, config, ops>>
    /\ UNCHANGED <<branch, local, pre, proc_lock, now, remote0,
                   index_lock, remote, tree, history>>

\* repo.git.add(all=True); git refuses while .git/index.lock exists.
Add(r) ==
    /\ pc[r] = "add"
    /\ Did(r, "add")
    /\ \E ok \in BOOLEAN :
        IF ok /\ ~index_lock.exists
        THEN /\ tree' = [tree EXCEPT !.dirty = FALSE, !.staged = tree.staged \/ tree.dirty]
             /\ local' = [local EXCEPT ![r].pending = tree.staged \/ tree.dirty]
             /\ Goto(r, "commit")
             /\ UNCHANGED outcome
        ELSE /\ Leave(r, "GitCommandError")
             /\ UNCHANGED <<tree, local>>
    /\ UNCHANGED <<environ, branch, pre, proc_lock, now, remote0,
                   index_lock, config, remote, history>>

\* if repo.is_dirty(untracked_files=True): repo.index.commit(...)
Commit(r) ==
    /\ pc[r] = "commit"
    /\ IF IsDirty(tree)
       THEN \E ok \in BOOLEAN :
            IF ok
            THEN /\ history' = [history EXCEPT !.commits = @ + 1]
                 /\ tree' = [tree EXCEPT !.staged = FALSE]
                 /\ local' = [local EXCEPT ![r].committed = @ + 1]
                 /\ Did(r, "commit")
                 /\ Goto(r, "branch")
                 /\ UNCHANGED outcome
            ELSE /\ Leave(r, "GitCommandError")
                 /\ UNCHANGED <<history, tree, ops, local>>
       ELSE /\ Goto(r, "branch")
            /\ UNCHANGED <<history, tree, ops, outcome, local>>
    /\ UNCHANGED <<environ, branch, pre, proc_lock, now, remote0,
                   index_lock, config, remote>>

\* default_branch = branch or (active branch, or "main" when detached)
ResolveBranch(r) ==
    /\ pc[r] = "branch"
    /\ \E b \in BranchValues(environ[r]) :
        /\ b = None \/ Varied(r)
        /\ branch' = [branch EXCEPT ![r] = b]
        /\ local' = [local EXCEPT ![r].default_branch = DefaultBranch(b, tree.head),
                                  ![r].head = tree.head]
    /\ Goto(r, "fetch")
    /\ UNCHANGED <<environ, outcome, ops, pre, proc_lock, now, remote0, repo>>

\* The except clause of the fetch / pull step for stderr msg; l is what the
\* run holds when the command fails.
Except(r, l, msg) ==
    /\ local' = [local EXCEPT ![r] = [l EXCEPT !.stderr = msg]]
    /\ IF Classify(msg) = "swallowed"
       THEN Goto(r, "read_url") /\ UNCHANGED outcome
       ELSE Leave(r, Classify(msg))

\* os.environ.setdefault("GIT_TERMINAL_PROMPT", "0"); repo.git.fetch(remote_name)
Fetch(r) ==
    /\ pc[r] = "fetch"
    /\ \E p \in PromptValues(environ[r], branch[r]) :
        LET l(ok) == [local[r] EXCEPT !.prompt0 = p,
                          !.calls = Append(@, GitCall("fetch", FetchArgs, ok))]
        IN  /\ p = None \/ Varied(r)
            /\ environ' = [environ EXCEPT ![r].GIT_TERMINAL_PROMPT = SetDefault(p, "0")]
            /\ \/ /\ local' = [local EXCEPT ![r] = l(TRUE)]
                  /\ Goto(r, "pull")
                  /\ UNCHANGED outcome
               \/ \E msg \in Stderrs : Except(r, l(FALSE), msg)
    /\ Did(r, "fetch")
    /\ UNCHANGED <<branch, pre, proc_lock, now, remote0, repo>>

\* The work trees and indexes a pull --rebase that failed with stderr msg can
\* leave: a rebase that stopped on a conflict leaves the conflicted files in
\* the work tree and the index, and HEAD detached; one that could not take
\* .git/index.lock had not started, or is left unfinished with HEAD detached.
RebaseStopped(t, msg) ==
    IF "CONFLICT" \in msg \/ "Resolve all conflicts manually" \in msg
    THEN {[dirty |-> TRUE, staged |-> TRUE, head |-> Detached]}
    ELSE IF In("index.lock", msg)
    THEN {t, [t EXCEPT !.head = Detached]}
    ELSE {t}

\* repo.git.pull("--rebase", remote_name, default_branch)
Pull(r) ==
    /\ pc[r] = "pull"
    /\ Did(r, "pull")
    /\ LET l(ok) == [local[r] EXCEPT !.calls =
                        Append(@, GitCall("pull", PullArgs(local[r].default_branch), ok))]
       IN  \/ /\ local' = [local EXCEPT ![r] = l(TRUE)]
              /\ Goto(r, "read_url")
              /\ UNCHANGED <<outcome, tree>>
           \/ \E msg \in Stderrs :
                /\ Except(r, l(FALSE), msg)
                /\ \E t \in RebaseStopped(tree, msg) : tree' = t
    /\ UNCHANGED <<environ, branch, pre, proc_lock, now, remote0,
                   index_lock, config, remote, history>>

\* remote = repo.remotes[remote_name]; original = remote.url; the https form
\* and push_url.  split(':',1)[1] raises IndexError without a colon.
ReadUrl(r) ==
    /\ pc[r] = "read_url"
    /\ IF StartsWithHttp(remote.url) \/ HasColon(remote.url)
       THEN /\ local' = [local EXCEPT
                            ![r].original = remote.url,
                            ![r].push_url = PushUrl(remote.url, environ[r].github_token)]
            /\ Goto(r, "set_url")
            /\ UNCHANGED outcome
       ELSE /\ Leave(r, "IndexError")
            /\ UNCHANGED local
    /\ UNCHANGED <<environ, branch, ops, pre, proc_lock, now, remote0, repo>>

\* remote.set_url(push_url, push=True): `git remote set-url --push`, which
\* raises GitCommandError (e.g. .git/config.lock is held) and then leaves the
\* config as it was; the finally clause of the push part runs next.
SetUrl(r) ==
    /\ pc[r] = "set_url"
    /\ \/ /\ remote' = [remote EXCEPT !.pushurl = local[r].push_url]
          /\ Did(r, "set_url")
          /\ Goto(r, "push")
          /\ UNCHANGED outcome
       \/ /\ Goto(r, "restore")
          /\ Ends(r, "GitCommandError")
          /\ UNCHANGED <<remote, ops>>
    /\ UNCHANGED <<environ, branch, local, pre, proc_lock, now, remote0,
                   index_lock, config, tree, history>>

\* repo.git.push(remote_name, default_branch)
Push(r) ==
    /\ pc[r] = "push"
    /\ Did(r, "push")
    /\ \E ok \in BOOLEAN :
        /\ local' = [local EXCEPT ![r].calls =
                        Append(@, GitCall("push", PushArgs(local[r].default_branch), ok))]
        /\ Goto(r, AfterPush(ok))
        /\ IF ok
           THEN /\ history' = [history EXCEPT !.pushed =
                                  Pushed(history, local[r].default_branch, local[r].head)]
                /\ Ends(r, "success")
           ELSE UNCHANGED <<history, outcome>>
    /\ UNCHANGED <<environ, branch, pre, proc_lock, now, remote0,
                   index_lock, config, remote, tree>>

\* except GitCommandError: repo.git.push(remote_name, "HEAD:refs/heads/<branch>", "-u")
PushRetry(r) ==
    /\ pc[r] = "push_retry"
    /\ Did(r, "push_retry")
    /\ \E ok \in BOOLEAN :
        /\ local' = [local EXCEPT ![r].calls =
                        Append(@, GitCall("push", RetryArgs(local[r].default_branch), ok))]
        /\ Goto(r, AfterRetry(ok))
        /\ IF ok
           THEN /\ \E n \in HeadPushed(history, tree.head) :
                    history' = [history EXCEPT !.pushed = n]
                /\ Ends(r, "success")
           ELSE /\ Ends(r, "GitCommandError")
                /\ UNCHANGED history
    /\ UNCHANGED <<environ, branch, pre, proc_lock, now, remote0,
                   index_lock, config, remote, tree>>

\* finally: remote.set_url(original, push=True).  When it raises, the config
\* stays as it is and GitCommandError leaves the run in place of whatever the
\* push part had returned or raised.
RestoreUrl(r) ==
    /\ pc[r] = "restore"
    /\ \/ /\ remote' = [remote EXCEPT !.pushurl =
                            Restored(local[r].original, remote.pushurl)]
          /\ Did(r, "restore")
          /\ UNCHANGED outcome
       \/ /\ Ends(r, "GitCommandError")
          /\ UNCHANGED <<remote, ops>>
    /\ Goto(r, "release")
    /\ UNCHANGED <<environ, branch, local, pre, proc_lock, now, remote0,
                   index_lock, config, tree, history>>

\* finally: proc_lock.release(), and the call returns or raises.  Of a run
\* that is over the model keeps how it ended and the environment of its
\* process; its local variables end with the call.
Release(r) ==
    /\ pc[r] = "release"
    /\ proc_lock' = Released(proc_lock, r)
    /\ Goto(r, "done")
    /\ local' = [local EXCEPT ![r] = NoLocal]
    /\ ops' = [ops EXCEPT ![r] = {}]
    /\ pre' = [pre EXCEPT ![r] = NoRemote]
    /\ branch' = [branch EXCEPT ![r] = None]
    /\ UNCHANGED <<environ, outcome, now, remote0, repo>>

\* Time passes.
Tick ==
    /\ index_lock.exists
    /\ \E t \in Times : t > now /\ now' = t
    /\ UNCHANGED <<pc, environ, branch, local, outcome, ops, pre, proc_lock,
                   remote0, repo>>

Step(r) ==
    \/ Start(r) \/ Acquire(r) \/ AcquireWait(r) \/ AcquireGiveUp(r)
    \/ IndexExists(r) \/ IndexMtime(r) \/ IndexRemove(r)
    \/ EnsureIdentity(r) \/ Add(r) \/ Commit(r) \/ ResolveBranch(r)
    \/ Fetch(r) \/ Pull(r)
    \/ ReadUrl(r) \/ SetUrl(r) \/ Push(r) \/ PushRetry(r) \/ RestoreUrl(r)
    \/ Release(r)

Next == (\E r \in Runs : Step(r)) \/ Tick

Spec == Init /\ [][Next]_vars

\* ----------------------------------------------- foreign git operations
\* Another git process in the same repository takes .git/index.lock: it
\* creates the marker, which is absent, with the current time as its mtime.
ForeignCreate ==
    /\ ~index_lock.exists
    /\ index_lock' = [exists |-> TRUE, mtime |-> now]
    /\ UNCHANGED <<pc, environ, branch, local, outcome, ops, pre, proc_lock,
                   now, remote0, config, remote, tree, history>>

\* The git process that holds .git/index.lock finishes and removes it.
ForeignRemove ==
    /\ index_lock.exists
    /\ index_lock' = NoIndexLock
    /\ UNCHANGED <<pc, environ, branch, local, outcome, ops, pre, proc_lock,
                   now, remote0, config, remote, tree, history>>

NextForeign == Next \/ ForeignCreate \/ ForeignRemove

SpecForeign == Init /\ [][NextForeign]_vars

\* ------------------------------------------------------------------- claims
\* Between a successful acquire and the release of .git/push.lock.
LockedPcs == {"index_exists", "index_mtime", "index_remove", "identity", "add",
              "commit", "branch", "fetch", "pull", "read_url", "set_url", "push",
              "push_retry", "restore", "release"}
\* Between setting the credentialed push URL and restoring it.
PushPcs == {"push", "push_retry", "restore"}
\* The operations that change the repository or talk to the remote.
Mutations == {"index_remove", "identity", "add", "commit", "fetch", "pull",
              "set_url", "push", "push_retry", "restore"}

\* C1: no two runs are inside the locked section (between a successful
\* acquire of .git/push.lock and its release) at the same time.
C1_MutualExclusion ==
    \A r1, r2 \in Runs :
        r1 # r2 => ~(pc[r1] \in LockedPcs /\ pc[r2] \in LockedPcs)

\* A run is pushing while another run has polled the held lock and waits.
C1_Witness ==
    \E r1, r2 \in Runs :
        /\ pc[r1] = "push"
        /\ pc[r2] = "acquire"
        /\ local[r2].waited > 0

\* C2 as claimed: when a run that set the credentialed push URL is about to
\* release the lock, the remote's configuration (fetch URL and push URL
\* entry) equals its configuration when the run took the lock, which is what
\* the run finds when it reads the remote.
C2_RemoteRestoredExactly ==
    \A r \in Runs :
        (pc[r] = "release" /\ "set_url" \in ops[r]) => remote = pre[r]

\* C3 as stated, its credential part: while no run is between setting the
\* credentialed push URL and restoring it, neither the fetch URL nor the push
\* URL entry of the remote carries a token.  (That the entry is also the
\* original one is C2_RemoteRestoredExactly.)
C3_NoCredentialOutsidePush ==
    (\A r \in Runs : pc[r] \notin PushPcs) =>
        /\ ~Credentialed(remote.url)
        /\ ~Credentialed(remote.pushurl)

\* C4: .git/push.lock is held only by a run inside the locked section: a
\* run that has ended, on any path, no longer holds it, and with no run in
\* the locked section the lock is free for the next acquire.
C4_LockReleasedAtEnd ==
    /\ \A r \in Runs : proc_lock = r => pc[r] \in LockedPcs
    /\ (\A r \in Runs : pc[r] \notin LockedPcs) => proc_lock = NoOwner

\* A run has ended with an error raised inside the locked section and
\* another run has acquired the lock after it.
C4_Witness ==
    \E r1, r2 \in Runs :
        /\ pc[r1] = "done"
        /\ outcome[r1] \in {"ConcurrentOperation", "RebaseConflict",
                             "GitCommandError", "IndexError"}
        /\ proc_lock = r2
        /\ pc[r2] = "identity"

\* C5 as claimed: a run whose fetch or pull failed with a stderr that has
\* none of the recognized signatures is on its way out with an error, and
\* has not set the push URL.
C5_UnrecognizedFailureIsFatal ==
    \A r \in Runs :
        local[r].stderr = {"Could not resolve host"} =>
            /\ pc[r] = "release"
            /\ outcome[r] \notin {"running", "success"}
            /\ "set_url" \notin ops[r]

\* C6: a run that found the lock held at every poll until the timeout ends
\* with the contention skip and has performed no operation and never held
\* the lock; a wait never exceeds the timeout by more than one poll, and a
\* run that has not acquired the lock has performed no operation.
C6_ContentionSkip ==
    \A r \in Runs :
        /\ local[r].waited <= AcquireTimeout + PollStep
        /\ pc[r] = "acquire" => (ops[r] = {} /\ proc_lock # r)
        /\ (pc[r] = "done" /\ local[r].waited > AcquireTimeout) =>
               outcome[r] = "skipped: push.lock busy"
        /\ outcome[r] = "skipped: push.lock busy" =>
               /\ pc[r] = "done"
               /\ ops[r] = {}
               /\ proc_lock # r
               /\ local[r].waited > AcquireTimeout

\* A run gave up on the lock while another run was pushing.
C6_Witness ==
    \E r1, r2 \in Runs :
        /\ outcome[r1] = "skipped: push.lock busy"
        /\ pc[r2] = "push"

\* C7: a run with SKIP_PUSH = "1", with or without a token, ends at once
\* with the disabled skip, having performed no operation, taken no lock and
\* set no local.
C7_DisabledRunIsNoOp ==
    \A r \in Runs :
        environ[r].SKIP_PUSH = "1" =>
            /\ pc[r] = "done"
            /\ outcome[r] = "skipped: SKIP_PUSH=1"
            /\ ops[r] = {}
            /\ proc_lock # r
            /\ local[r] = NoLocal

\* A disabled run that had a token has ended while another run, not
\* disabled, holds the lock and is about to push.
C7_Witness ==
    \E r1, r2 \in Runs :
        /\ environ[r1].SKIP_PUSH = "1" /\ environ[r1].github_token = "ghp_tok"
        /\ pc[r1] = "done" /\ outcome[r1] = "skipped: SKIP_PUSH=1"
        /\ pc[r2] = "push" /\ proc_lock = r2

\* C8: a started run that is not disabled and has no token, or an empty
\* one, has raised MissingCredential, having performed no operation and
\* taken no lock.
C8_MissingCredentialFailsFast ==
    \A r \in Runs :
        (pc[r] # "idle" /\ environ[r].SKIP_PUSH # "1"
            /\ environ[r].github_token \in {None, ""}) =>
            /\ pc[r] = "done"
            /\ outcome[r] = "MissingCredential"
            /\ ops[r] = {}
            /\ proc_lock # r
            /\ local[r] = NoLocal

\* A run with an empty token has failed while another run holds the lock.
C8_Witness ==
    \E r1, r2 \in Runs :
        /\ environ[r1].github_token = "" /\ outcome[r1] = "MissingCredential"
        /\ proc_lock = r2

\* C9: a run that read an age of index.lock below max_age_sec is leaving
\* with ConcurrentOperation, has done nothing but inspect the marker, and
\* the marker is still there; once it has ended it does not hold the lock.
C9_RecentIndexLockAborts ==
    \A r \in Runs :
        /\ ("index_mtime" \in ops[r] /\ local[r].age < max_age_sec) =>
               /\ pc[r] = "release"
               /\ outcome[r] = "ConcurrentOperation"
               /\ ops[r] \cap Mutations = {}
               /\ local[r].removed = {}
               /\ index_lock.exists
        /\ outcome[r] = "ConcurrentOperation" =>
               /\ pc[r] \in {"release", "done"}
               /\ pc[r] = "done" => proc_lock # r

\* A run met a marker one second younger than the threshold.
C9_Witness ==
    \E r \in Runs :
        /\ pc[r] = "release"
        /\ outcome[r] = "ConcurrentOperation"
        /\ local[r].age = max_age_sec - 1

\* C10: a run that read an age of index.lock at or above max_age_sec goes
\* on to delete the marker and then to the identity step, never raising
\* ConcurrentOperation; a run that found no marker goes to the identity
\* step without deleting anything.
C10_StaleIndexLockRemoved ==
    \A r \in Runs :
        /\ ("index_mtime" \in ops[r] /\ local[r].age >= max_age_sec) =>
               /\ outcome[r] # "ConcurrentOperation"
               /\ pc[r] = "index_remove" \/ "index_remove" \in ops[r]
               /\ "index_remove" \in ops[r] =>
                      (pc[r] = "identity" \/ "identity" \in ops[r]
                          \/ outcome[r] = "IOError")
        /\ pc[r] = "identity" => ~index_lock.exists
        /\ ("index_exists" \in ops[r] /\ "index_mtime" \notin ops[r]
               /\ pc[r] # "index_mtime") =>
               /\ "index_remove" \notin ops[r]
               /\ local[r].removed = {}
               /\ pc[r] = "identity" \/ "identity" \in ops[r]
                      \/ outcome[r] = "IOError"

\* A run deleted a marker whose age was exactly the threshold and went on to
\* stage.
C10_Witness ==
    \E r \in Runs :
        /\ local[r].age = max_age_sec
        /\ local[r].removed = {max_age_sec}
        /\ pc[r] = "commit"
        /\ ~index_lock.exists

\* The stderr texts of a rebase that stopped on a conflict or a failed merge;
\* the last one echoes the subject of the commit that could not be applied.
ConflictMessages ==
    {{"CONFLICT", "Merge conflict in"},
     {"refusing to merge unrelated histories"},
     {"could not apply: fix index.lock handling", "Resolve all conflicts manually"}}
\* The push commands a run has issued so far, in order.
PushCalls(r) ==
    LET IsPush(c) == c.cmd = "push" IN SelectSeq(local[r].calls, IsPush)
\* The fetch and pull commands of a run with the given name.
CallsOf(r, cmd) ==
    LET IsCmd(c) == c.cmd = cmd IN SelectSeq(local[r].calls, IsCmd)

\* C11 as stated: a run whose fetch or pull failed with a conflict or
\* merge-failure message ends with RebaseConflict raised to the caller: it goes straight
\* to the release of .git/push.lock, issues no push, never sets the push URL
\* (which stays free of the token), and no longer holds the lock once over.
C11_ConflictPropagates ==
    \A r \in Runs :
        /\ local[r].stderr \in ConflictMessages =>
               /\ pc[r] = "release"
               /\ outcome[r] = "RebaseConflict"
               /\ ops[r] \cap {"set_url", "push", "push_retry", "restore"} = {}
               /\ PushCalls(r) = <<>>
               /\ local[r].push_url = Unset
               /\ remote = pre[r]
        /\ (outcome[r] = "RebaseConflict" /\ pc[r] = "done") => proc_lock # r

\* C12 as stated: a run pushes at most twice; the first push names the
\* branch alone, a second push happens only after the first failed and has
\* the form HEAD:refs/heads/<branch> -u; a run that pushed and is about to
\* release ends in success when its last push succeeded, and in
\* GitCommandError only when both pushes failed, with the push URL restored.
C12_RetryOnce ==
    \A r \in Runs :
        LET p == PushCalls(r)
            b == local[r].default_branch
        IN  /\ Len(p) <= 2
            /\ Len(p) >= 1 => p[1].args = <<"origin", b>>
            /\ Len(p) = 2 =>
                   /\ ~p[1].ok
                   /\ p[2].args = <<"origin", "HEAD:refs/heads/", b, "-u">>
            /\ (Len(p) = 1 /\ pc[r] \in {"restore", "release"}) => p[1].ok
            /\ (Len(p) >= 1 /\ pc[r] = "release") =>
                   /\ outcome[r] = IF p[Len(p)].ok THEN "success" ELSE "GitCommandError"
                   /\ outcome[r] = "GitCommandError" =>
                          Len(p) = 2 /\ "restore" \in ops[r]

\* The run is past its commit step.
PastCommit(r) == pc[r] = "branch" \/ local[r].default_branch # None

\* C13: a run past its commit step has created a commit exactly when the
\* staging step found changes, and never more than one; a run without
\* changes is not ended by the commit step.
C13_CommitIffPending ==
    \A r \in Runs :
        /\ local[r].committed <= 1
        /\ PastCommit(r) =>
               /\ ("commit" \in ops[r]) = local[r].pending
               /\ local[r].committed = IF local[r].pending THEN 1 ELSE 0
        /\ (pc[r] = "release" /\ "add" \in ops[r] /\ ~local[r].pending
               /\ "fetch" \notin ops[r]) => outcome[r] = "GitCommandError"

\* A run that staged nothing made no commit and still fetched, pulled and
\* pushed.
C13_Witness ==
    \E r \in Runs :
        /\ pc[r] = "restore"
        /\ ~local[r].pending
        /\ local[r].committed = 0
        /\ {"add", "fetch", "pull", "push"} \subseteq ops[r]
        /\ outcome[r] = "success"

\* C14 as stated: when a run is about to release, the identity keys, the
\* remote entries and GIT_TERMINAL_PROMPT are what they were before the run.
C14_NothingElseChanged ==
    \A r \in Runs :
        pc[r] = "release" =>
            /\ config = local[r].config0
            /\ "set_url" \in ops[r] => remote = pre[r]
            /\ environ[r].GIT_TERMINAL_PROMPT = local[r].prompt0

\* C14, amended: when a run is about to release it has made at most one
\* commit, the fetch URL is what it was, an identity key that was set and a
\* GIT_TERMINAL_PROMPT that was set keep their values; an identity key that
\* was unset stays unset or was set by the identity step, and an unset
\* GIT_TERMINAL_PROMPT stays unset until the fetch step sets it to "0".
C14_FrameAmended ==
    \A r \in Runs :
        pc[r] = "release" =>
            /\ local[r].committed <= 1
            /\ remote.url = remote0.url
            /\ "set_url" \in ops[r] => remote.url = pre[r].url
            /\ \A k \in {"name", "email"} :
                /\ local[r].config0[k] # None => config[k] = local[r].config0[k]
                /\ (local[r].config0[k] = None /\ config[k] # None) =>
                       "identity" \in ops[r]
            /\ local[r].prompt0 # None =>
                   environ[r].GIT_TERMINAL_PROMPT = local[r].prompt0
            /\ local[r].prompt0 = None =>
                   environ[r].GIT_TERMINAL_PROMPT =
                       IF "fetch" \in ops[r] THEN "0" ELSE None

\* A successful run in a repository without identity keys, started without
\* GIT_TERMINAL_PROMPT, is about to release: both were written.
C14_Witness ==
    \E r \in Runs :
        /\ pc[r] = "release"
        /\ outcome[r] = "success"
        /\ local[r].config0 = [name |-> None, email |-> None]
        /\ config = [name |-> "automation", email |-> "automation@example.com"]
        /\ local[r].prompt0 = None
        /\ environ[r].GIT_TERMINAL_PROMPT = "0"

\* C15 as stated: every index.lock a run deleted had, when it was deleted,
\* an age of at least max_age_sec.
C15_OnlyStaleDeleted ==
    \A r \in Runs : \A a \in local[r].removed : a >= max_age_sec

\* The stderr texts of the failures the fetch / pull step skips on: the
\* getaddrinfo thread error, and texts that mention index.lock.
SkipMessages ==
    {{THREAD_ERR}, {"index.lock", "File exists"},
     {"could not apply: fix index.lock handling", "Resolve all conflicts manually"}}

\* C16: a run whose fetch or pull failed with the getaddrinfo thread error
\* or with an index.lock message returns with a skip: it goes straight to
\* the release of .git/push.lock, the failed command is its last git
\* command (no fetch or pull is repeated), it never sets the push URL and
\* never pushes, and it no longer holds the lock once over.
C16_TransientSkip ==
    \A r \in Runs :
        /\ local[r].stderr \in SkipMessages =>
               /\ pc[r] = "release"
               /\ outcome[r] = IF local[r].stderr = {THREAD_ERR}
                               THEN "skipped: low resources"
                               ELSE "skipped: index.lock during pull"
               /\ Len(CallsOf(r, "fetch")) = 1
               /\ Len(CallsOf(r, "pull")) <= 1
               /\ \A i \in DOMAIN local[r].calls :
                      local[r].calls[i].ok = (i < Len(local[r].calls))
               /\ ops[r] \cap {"set_url", "push", "push_retry", "restore"} = {}
               /\ PushCalls(r) = <<>>
               /\ local[r].push_url = Unset
               /\ remote = pre[r]
        /\ (outcome[r] \in {"skipped: low resources", "skipped: index.lock during pull"}
               /\ pc[r] = "done") => proc_lock # r

\* A pull failed on index.lock and the run is about to release and return.
C16_Witness ==
    \E r \in Runs :
        /\ pc[r] = "release"
        /\ outcome[r] = "skipped: index.lock during pull"
        /\ local[r].stderr = {"index.lock", "File exists"}
        /\ Len(CallsOf(r, "pull")) = 1
        /\ proc_lock = r

\* C17: after the identity step of a run each of user.name and user.email
\* holds the value it had when it was set, and otherwise the override of
\* the environment when there is one, else the default; a further identity
\* step, whatever the overrides, would leave both keys as they are.
C17_IdentityNotClobbered ==
    \A r \in Runs :
        "identity" \in ops[r] =>
            /\ config.name =
                   IF local[r].config0.name # None THEN local[r].config0.name
                   ELSE IF environ[r].GIT_USER_NAME # None
                        THEN environ[r].GIT_USER_NAME ELSE "automation"
            /\ config.email =
                   IF local[r].config0.email # None THEN local[r].config0.email
                   ELSE IF environ[r].GIT_USER_EMAIL # None
                        THEN environ[r].GIT_USER_EMAIL ELSE "automation@example.com"
            /\ \A n \in {None, "ci", "bob"} :
                   /\ Ensured(config.name, n, "automation") = config.name
                   /\ Ensured(config.email, n, "automation@example.com") = config.email

\* The identity step ran with user.name set and user.email unset, under an
\* override of the email: the name is kept and the email is the override.
C17_Witness ==
    \E r \in Runs :
        /\ pc[r] = "add"
        /\ local[r].config0 = [name |-> "alice", email |-> None]
        /\ environ[r].GIT_USER_EMAIL = "ci@example.org"
        /\ config = [name |-> "alice", email |-> "ci@example.org"]

\* C18: the branch a run resolved is its branch argument when that is
\* given and not empty, else the branch that was checked out when the run
\* resolved it, else "main" when HEAD was detached then; the pull and every push of the run name that branch.
C18_BranchResolution ==
    \A r \in Runs :
        local[r].default_branch # None =>
            LET b == local[r].default_branch IN
            /\ b = IF branch[r] # None /\ branch[r] # "" THEN branch[r]
                   ELSE IF local[r].head # "(detached HEAD)" THEN local[r].head
                   ELSE "main"
            /\ \A i \in DOMAIN local[r].calls :
                LET c == local[r].calls[i] IN
                /\ c.cmd = "pull" => c.args = <<"--rebase", "origin", b>>
                /\ c.cmd = "push" =>
                       c.args \in {<<"origin", b>>,
                                   <<"origin", "HEAD:refs/heads/", b, "-u">>}

\* On a detached HEAD and without a branch argument a run pulled "main",
\* pushed it, and pushed it again by refspec.
C18_Witness ==
    \E r \in Runs :
        /\ pc[r] = "restore"
        /\ local[r].head = Detached
        /\ branch[r] = None
        /\ local[r].default_branch = "main"
        /\ Len(CallsOf(r, "pull")) = 1
        /\ Len(PushCalls(r)) = 2

\* C19 as stated: while the push URL of the remote carries the token some
\* run holds .git/push.lock; a run about to release that set the push URL
\* has restored it, so that the entry is free of the token before the lock
\* is released; the URL a run saved as original never carries a token.
C19_CredentialUnderLock ==
    /\ Credentialed(remote.pushurl) => \E r \in Runs : proc_lock = r
    /\ \A r \in Runs :
        /\ (pc[r] = "release" /\ "set_url" \in ops[r]) =>
               /\ "restore" \in ops[r]
               /\ ~Credentialed(remote.pushurl)
        /\ ~Credentialed(local[r].original)
        /\ ~Credentialed(pre[r].url)
====
